---------------------------- MODULE Spec2Model ----------------------------
(***************************************************************************)
(* A model of the lesson notebooks of the repository:                      *)
(*   - "Tests and Testability": the two definitions of factorial(n), run   *)
(*     frame by frame on the Python call stack;                            *)
(*   - "Introduction to Map/Reduce with Python": the word count in its     *)
(*     single-loop and map/reduce forms, and the pi job (mapfn, reducefn   *)
(*     and the job's coordination as the notebook describes it);           *)
(*   - "Decorators": print_hi_first and the functions it wraps, run frame  *)
(*     by frame, with what they print and return.                          *)
(***************************************************************************)
EXTENDS Integers, Sequences, FiniteSets

VARIABLES
    impl,       \* which definition the name factorial is bound to
    callImpl,   \* the definition the outermost call was made under
    arg,        \* the argument of the outermost factorial call
    stack,      \* the active factorial frames, innermost last: each frame's n
    ret,        \* the value the last finished frame returned
    outcome,    \* how the outermost call ended, "running" while it has not
    \* the word count of the map/reduce notebook
    text,                       \* the input text, a sequence of characters
    cuts,                       \* where the text is cut into documents
    wcPc,                       \* the next cell to run
    counts_per_word,            \* the dict of the rough solution
    word_instances,             \* step 1: the (word, 1) tuples
    collated_word_instances,    \* step 2: (word, [1, ...]) in key order
    word_counts,                \* step 3: the dict word -> count
    mapped,                     \* the documents whose map output has arrived
    emitted,                    \* the map outputs, in the order combined
    job_results,                \* what the map/reduce job returns, word -> count
    \* the pi job
    data,           \* the server's datasource: task key -> darts to throw
    workerState,    \* per worker: "away", "ready", "map" or "reduce"
    workerTask,     \* per worker: the key of the map task it works on, or 0
    taskState,      \* per map task: "pending", "working" or "done"
    accepted,       \* per map task: the (inside, value) the server took in
    map_results,    \* the values collected under 'totals', in arrival order
    rIdx,           \* reducefn: how many v of value the loop has consumed
    rAcc,           \* reducefn: (inside, total) so far
    results,        \* what the reduce job returned to the server
    printed,        \* the server has printed the final answer
    \* the decorators notebook
    functions,      \* the function objects created so far
    frames,         \* the active frames, innermost last: function and position
    stdout,         \* the lines printed since the outermost call
    events,         \* what each frame did since the outermost call, in order
    returned,       \* the value the last finished frame returned
    status          \* how the outermost call ended, "running" while it has not

factVars == <<impl, callImpl, arg, stack, ret, outcome>>

wcVars == <<text, cuts, wcPc, counts_per_word, word_instances,
            collated_word_instances, word_counts, mapped, emitted, job_results>>

piVars == <<data, workerState, workerTask, taskState, accepted, map_results,
            rIdx, rAcc, results, printed>>

decoVars == <<functions, frames, stdout, events, returned, status>>

vars == <<factVars, wcVars, piVars, decoVars>>

---------------------------------------------------------------------------
(* Python values.  A number is kept as twice its value (h), so that the    *)
(* floats 0.5, 1.5, ... are representable; a str carries no number.        *)

PyInt(k) == [t |-> "int", h |-> 2 * k]

PyFloatHalves(k) == [t |-> "float", h |-> k]

PyStr == [t |-> "str", h |-> 0]

PyNone == [t |-> "none", h |-> 0]

IsNumber(x) == x.t \in {"int", "float"}

\* x == k for an int literal k: numbers compare by value, a str is never equal
PyEqInt(x, k) == IsNumber(x) /\ x.h = 2 * k

\* x < 0, defined for numbers (a str raises TypeError, see Raises below)
PyLtZero(x) == x.h < 0

\* x - 1 for a number: the type is kept
PySubOne(x) == [x EXCEPT !.h = x.h - 2]

\* x * y for numbers: float if either is, exact because one factor is whole
PyMul(x, y) ==
    [t |-> IF x.t = "float" \/ y.t = "float" THEN "float" ELSE "int",
     h |-> (x.h * y.h) \div 2]

---------------------------------------------------------------------------
(* Bounds of the factorial runs.                                           *)

MaxN == 10

MaxNeg == 3

MaxHalf == 5

\* frames of factorial the interpreter allows before it raises RecursionError
\* (2940 in the notebook's run, scaled down here; always above MaxN + 1)
FrameLimit == 40

IntArgs == {PyInt(k) : k \in (0 - MaxNeg)..MaxN}

FloatArgs == {PyFloatHalves(k) : k \in (0 - MaxHalf)..MaxHalf}

Args == IntArgs \cup FloatArgs \cup {PyStr}

---------------------------------------------------------------------------
(* factorial(n), one frame at a time.  TopN is the n of the running frame. *)

TopN == stack[Len(stack)]

Running == outcome = "running" /\ Len(stack) > 0

\* the frame is one too many: the interpreter raises RecursionError in it
TooDeep == Len(stack) >= FrameLimit

\* a plausible slip: the base implementation stops at n == 0
BaseCaseBaseAtZero(n) == PyEqInt(n, 0)

\* base implementation, "if n == 1: return n"
BaseCaseBase(n) == PyEqInt(n, 1)

\* a plausible slip: the rewrite keeps the old base case and forgets n == 0
BaseCaseRewrittenAtOne(n) == PyEqInt(n, 1)

\* a plausible slip: the rewrite has no "n < 0" guard
RaisesRewrittenNoGuard(n) == IF n.t = "str" THEN "TypeError" ELSE ""

\* base implementation: what the frame raises, "" when nothing
RaisesBase(n) ==
    IF BaseCaseBase(n) THEN ""
    ELSE IF n.t = "str" THEN "TypeError"   \* n - 1
    ELSE ""

\* rewritten: what the frame raises, "" when nothing
RaisesRewritten(n) ==
    IF n.t = "str" THEN "TypeError"        \* n < 0
    ELSE IF PyLtZero(n) THEN "ValueError"
    ELSE ""

\* rewritten, "if n == 0: return 1"
BaseCaseRewritten(n) == PyEqInt(n, 0)

Raises(n) == IF callImpl = "base" THEN RaisesBase(n) ELSE RaisesRewritten(n)

BaseCase(n) == IF callImpl = "base" THEN BaseCaseBase(n) ELSE BaseCaseRewritten(n)

BaseValue(n) == IF callImpl = "base" THEN n ELSE PyInt(1)

\* the empty dict
EmptyDict == [w \in {} |-> 0]

\* the map/reduce notebook is not being run
WcIdle ==
    /\ text = <<>>
    /\ cuts = {}
    /\ wcPc = "idle"
    /\ counts_per_word = EmptyDict
    /\ word_instances = <<>>
    /\ collated_word_instances = <<>>
    /\ word_counts = EmptyDict
    /\ mapped = {}
    /\ emitted = <<>>
    /\ job_results = EmptyDict

\* no pi job has been set up
PiIdle ==
    /\ data = <<>>
    /\ workerState = <<>>
    /\ workerTask = <<>>
    /\ taskState = <<>>
    /\ accepted = <<>>
    /\ map_results = <<>>
    /\ rIdx = 0
    /\ rAcc = <<>>
    /\ results = <<>>
    /\ printed = FALSE

\* def three(): return 3
three == [kind |-> "three", func |-> 0]

\* def print_three(): print('three')
print_three == [kind |-> "print_three", func |-> 0]

\* def show_my_args(x, *args, **kwargs): print(args); print(kwargs)
show_my_args == [kind |-> "show_my_args", func |-> 0]

\* the function objects the notebook defines with plain def statements
PlainFunctions == <<three, print_three, show_my_args>>

\* no function has been wrapped or called
DecoIdle ==
    /\ functions = PlainFunctions
    /\ frames = <<>>
    /\ stdout = <<>>
    /\ events = <<>>
    /\ returned = PyNone
    /\ status = "idle"

FactInit ==
    /\ WcIdle
    /\ PiIdle
    /\ DecoIdle
    /\ impl = "base"
    /\ callImpl = "none"
    /\ arg = PyNone
    /\ stack = <<>>
    /\ ret = PyNone
    /\ outcome = "idle"

\* the cell that rewrites factorial is run
Redefine ==
    /\ impl = "base"
    /\ ~Running
    /\ impl' = "rewritten"
    /\ UNCHANGED <<callImpl, arg, stack, ret, outcome, wcVars, piVars, decoVars>>

\* factorial(n) is called from the notebook
Call(n) ==
    /\ ~Running
    /\ callImpl' = impl
    /\ arg' = n
    /\ stack' = <<n>>
    /\ ret' = PyNone
    /\ outcome' = "running"
    /\ UNCHANGED <<impl, wcVars, piVars, decoVars>>

\* an exception leaves every frame: factorial catches nothing
Unwind(exc) ==
    /\ stack' = <<>>
    /\ ret' = PyNone
    /\ outcome' = exc
    /\ UNCHANGED <<impl, callImpl, arg, wcVars, piVars, decoVars>>

FactRecursionError ==
    /\ Running /\ ret = PyNone
    /\ TooDeep
    /\ Unwind("RecursionError")

FactRaise ==
    /\ Running /\ ret = PyNone
    /\ ~TooDeep
    /\ Raises(TopN) # ""
    /\ Unwind(Raises(TopN))

\* the frame returns without recursing
FactBaseCase ==
    /\ Running /\ ret = PyNone
    /\ ~TooDeep
    /\ Raises(TopN) = ""
    /\ BaseCase(TopN)
    /\ ret' = BaseValue(TopN)
    /\ stack' = SubSeq(stack, 1, Len(stack) - 1)
    /\ outcome' = IF Len(stack) = 1 THEN "returned" ELSE "running"
    /\ UNCHANGED <<impl, callImpl, arg, wcVars, piVars, decoVars>>

\* the frame calls factorial(n - 1)
FactRecurse ==
    /\ Running /\ ret = PyNone
    /\ ~TooDeep
    /\ Raises(TopN) = ""
    /\ ~BaseCase(TopN)
    /\ stack' = Append(stack, PySubOne(TopN))
    /\ UNCHANGED <<impl, callImpl, arg, ret, outcome, wcVars, piVars, decoVars>>

\* a plausible slip: the product starts one factor too low
ReturnExprOffByOne(n, r) == PyMul(PySubOne(n), r)

\* "return n * factorial(n - 1)", r being what factorial(n - 1) returned
ReturnExpr(n, r) == PyMul(n, r)

\* the callee has returned: the caller multiplies and returns in its turn
FactReturn ==
    /\ Running /\ ret # PyNone
    /\ ret' = ReturnExpr(TopN, ret)
    /\ stack' = SubSeq(stack, 1, Len(stack) - 1)
    /\ outcome' = IF Len(stack) = 1 THEN "returned" ELSE "running"
    /\ UNCHANGED <<impl, callImpl, arg, wcVars, piVars, decoVars>>

FactNext ==
    \/ Redefine
    \/ \E n \in Args : Call(n)
    \/ FactRecursionError
    \/ FactRaise
    \/ FactBaseCase
    \/ FactRecurse
    \/ FactReturn

SpecFactorial == FactInit /\ [][FactNext]_vars

---------------------------------------------------------------------------
(* Claims about factorial.                                                 *)

RECURSIVE SetProduct(_)
\* the product of the numbers of a finite set of integers
SetProduct(S) ==
    IF S = {} THEN 1
    ELSE LET x == CHOOSE y \in S : TRUE IN x * SetProduct(S \ {x})

IsIntArg(x) == x.t = "int"

IntOf(x) == x.h \div 2

Finished == outcome \notin {"idle", "running"}

\* the values the notebook's table and tests list
FactorialTable ==
    [n \in {1, 2, 3, 4, 10} |->
        CASE n = 1 -> 1 [] n = 2 -> 2 [] n = 3 -> 6 [] n = 4 -> 24
          [] n = 10 -> 3628800]

\* C1: the rewritten factorial, called with an integer n >= 1, raises
\* nothing, never holds more than n + 1 frames, and returns the product of
\* the integers 1..n (1, 2, 6, 24 for n = 1..4 and 3628800 for n = 10).
C1_FactorialIsProduct ==
    (callImpl = "rewritten" /\ IsIntArg(arg) /\ IntOf(arg) >= 1) =>
        /\ outcome \in {"running", "returned"}
        /\ Len(stack) <= IntOf(arg) + 1
        /\ outcome = "returned" =>
              /\ ret = PyInt(SetProduct(1..IntOf(arg)))
              /\ IntOf(arg) \in DOMAIN FactorialTable =>
                    ret = PyInt(FactorialTable[IntOf(arg)])

C1_Witness ==
    /\ callImpl = "rewritten" /\ arg = PyInt(10)
    /\ outcome = "returned" /\ ret = PyInt(3628800)

\* C2: the rewritten factorial(0) returns 1.
C2_FactorialZeroIsOne ==
    (callImpl = "rewritten" /\ arg = PyInt(0) /\ Finished) =>
        (outcome = "returned" /\ ret = PyInt(1))

C2_Witness ==
    callImpl = "rewritten" /\ arg = PyInt(0) /\ outcome = "returned"

\* C3: the rewritten factorial, called with a negative integer, raises
\* ValueError in its first frame and returns no value.
C3_NegativeRaisesValueError ==
    (callImpl = "rewritten" /\ IsIntArg(arg) /\ IntOf(arg) < 0) =>
        /\ Len(stack) <= 1
        /\ Finished => (outcome = "ValueError" /\ ret = PyNone)

C3_Witness ==
    /\ callImpl = "rewritten" /\ arg = PyInt(0 - 2)
    /\ outcome = "ValueError" /\ stack = <<>>

\* an argument that is no integer: a str, or a float with a fraction
NonInteger(x) == x.t = "str" \/ (x.t = "float" /\ x.h % 2 # 0)

\* C4: factorial called with a non-integer argument ends in TypeError, under
\* the base implementation and under the rewritten one.
C4_NonIntegerRaisesTypeError ==
    (NonInteger(arg) /\ Finished) => outcome = "TypeError"

\* the part of C4 the notebook's test exercises: a str argument
StrRaisesTypeError ==
    (arg = PyStr /\ Finished) => outcome = "TypeError"

\* C12: under the base implementation a call with an integer n <= 0 never
\* meets the base case: each frame's n is one less than its caller's, so all
\* stay below 1, no frame ever returns, and the call can only end in
\* RecursionError, not in a result or a ValueError.
C12_BaseNeverTerminatesBelowOne ==
    (callImpl = "base" /\ IsIntArg(arg) /\ IntOf(arg) <= 0) =>
        /\ \A i \in DOMAIN stack :
              /\ stack[i] = PyInt(IntOf(arg) - (i - 1))
              /\ ~PyEqInt(stack[i], 1)
        /\ ret = PyNone
        /\ outcome \in {"running", "RecursionError"}
        /\ (outcome = "running" /\ Len(stack) < FrameLimit) =>
              ENABLED FactRecurse

C12_Witness ==
    /\ callImpl = "base" /\ arg = PyInt(0 - 1)
    /\ outcome = "RecursionError"

---------------------------------------------------------------------------
(* The word count.  A text is a sequence of characters; a word is a        *)
(* non-empty sequence of letters.                                          *)

MaxLen == 5

MaxDocs == 3

Letters == {"a", "b"}

Whitespace == {" "}

Chars == Letters \cup Whitespace

\* the code point of a character: str compares by code point
Ord(c) == CASE c = " " -> 32 [] c = "a" -> 97 [] c = "b" -> 98

Texts == UNION {[1..n -> Chars] : n \in 0..MaxLen}

RECURSIVE SplitFrom(_, _, _, _)
\* the scan of s from index i: cur is the word being read, acc the words read
SplitFrom(s, i, cur, acc) ==
    IF i > Len(s)
    THEN IF cur = <<>> THEN acc ELSE Append(acc, cur)
    ELSE IF s[i] \in Whitespace
         THEN SplitFrom(s, i + 1, <<>>,
                        IF cur = <<>> THEN acc ELSE Append(acc, cur))
         ELSE SplitFrom(s, i + 1, Append(cur, s[i]), acc)

\* s.split(): the maximal runs of non-whitespace characters, in order
split(s) == SplitFrom(s, 1, <<>>, <<>>)

\* d[k] = v on a dict
DictSet(d, k, v) == [x \in DOMAIN d \cup {k} |-> IF x = k THEN v ELSE d[x]]

RECURSIVE CountLoop(_, _, _)
\* the loop of the rough solution from word i on, d being counts_per_word
CountLoop(words, i, d) ==
    IF i > Len(words) THEN d
    ELSE LET word == words[i]
             d0 == IF word \notin DOMAIN d THEN DictSet(d, word, 0) ELSE d
         IN CountLoop(words, i + 1, DictSet(d0, word, d0[word] + 1))

\* the rough solution: one loop over text.split()
CountsPerWord(s) == CountLoop(split(s), 1, EmptyDict)

RECURSIVE EmitLoop(_, _, _)
\* "for word in ...: append((word, 1))" from word i on
EmitLoop(words, i, out) ==
    IF i > Len(words) THEN out
    ELSE EmitLoop(words, i + 1, Append(out, <<words[i], 1>>))

\* step 1: a (word, 1) for every single word found
WordInstances(s) == EmitLoop(split(s), 1, <<>>)

\* word count mapfn(key, value): the (word, 1) tuples it yields, in order
mapfn(key, value) == EmitLoop(split(value), 1, <<>>)

RECURSIVE StrLess(_, _)
\* a < b on str: the first differing character decides, a prefix is smaller
StrLess(a, b) ==
    IF b = <<>> THEN FALSE
    ELSE IF a = <<>> THEN TRUE
    ELSE IF Ord(Head(a)) # Ord(Head(b)) THEN Ord(Head(a)) < Ord(Head(b))
    ELSE StrLess(Tail(a), Tail(b))

\* x < y on (word, count) tuples
TupleLess(x, y) == StrLess(x[1], y[1]) \/ (x[1] = y[1] /\ x[2] < y[2])

RECURSIVE InsertSorted(_, _)
\* x put into the sorted list, after the entries not greater than it
InsertSorted(sortedSeq, x) ==
    IF sortedSeq = <<>> THEN <<x>>
    ELSE IF TupleLess(x, Head(sortedSeq)) THEN <<x>> \o sortedSeq
    ELSE <<Head(sortedSeq)>> \o InsertSorted(Tail(sortedSeq), x)

RECURSIVE SortFrom(_, _, _)
SortFrom(items, i, acc) ==
    IF i > Len(items) THEN acc
    ELSE SortFrom(items, i + 1, InsertSorted(acc, items[i]))

\* a plausible slip: the tuples are grouped without being sorted first
sortedOmitted(items) == items

\* sorted(items): ascending and stable
sorted(items) == SortFrom(items, 1, <<>>)

RECURSIVE GroupFrom(_, _, _)
\* itertools.groupby(items, lambda x: x[0]) from item i on: a new group is
\* started whenever the key differs from the key of the previous item
GroupFrom(items, i, groups) ==
    IF i > Len(items) THEN groups
    ELSE LET x == items[i]
             n == Len(groups)
         IN IF n > 0 /\ groups[n][1] = x[1]
            THEN GroupFrom(items, i + 1,
                     [groups EXCEPT ![n] = <<x[1], Append(groups[n][2], x)>>])
            ELSE GroupFrom(items, i + 1, Append(groups, <<x[1], <<x>>>>))

groupby(items) == GroupFrom(items, 1, <<>>)

\* a plausible slip: groupby over the instances as emitted, not sorted
CollateUnsorted(instances) ==
    LET groups == groupby(instances)
    IN [g \in 1..Len(groups) |->
          <<groups[g][1],
            [j \in 1..Len(groups[g][2]) |-> groups[g][2][j][2]]>>]

\* step 2: [(k, [x[1] for x in v]) for k, v in groupby(sorted(...), key)]
Collate(instances) ==
    LET groups == groupby(sorted(instances))
    IN [g \in 1..Len(groups) |->
          <<groups[g][1],
            [j \in 1..Len(groups[g][2]) |-> groups[g][2][j][2]]>>]

RECURSIVE sum(_)
sum(values) == IF values = <<>> THEN 0 ELSE Head(values) + sum(Tail(values))

\* word count reducefn(key, value): the one pair it yields
reducefn(key, value) == <<key, sum(value)>>

RECURSIVE SumLoop(_, _, _)
\* step 3 from entry i on: word_counts[word] = sum(counts)
SumLoop(collated, i, d) ==
    IF i > Len(collated) THEN d
    ELSE SumLoop(collated, i + 1,
                 DictSet(d, collated[i][1], sum(collated[i][2])))

WordCounts(collated) == SumLoop(collated, 1, EmptyDict)

RECURSIVE ReduceLoop(_, _, _)
\* the job's reduce phase: reducefn on every collated key, results by key
ReduceLoop(collated, i, d) ==
    IF i > Len(collated) THEN d
    ELSE LET kv == reducefn(collated[i][1], collated[i][2])
         IN ReduceLoop(collated, i + 1, DictSet(d, kv[1], kv[2]))

ReduceAll(collated) == ReduceLoop(collated, 1, EmptyDict)

FactIdle ==
    /\ impl = "base"
    /\ callImpl = "none"
    /\ arg = PyNone
    /\ stack = <<>>
    /\ ret = PyNone
    /\ outcome = "idle"

(* The documents: the text cut at some of its whitespace characters, which *)
(* belong to no document (the notebook's text is its three documents put   *)
(* one after the other with whitespace between them).                      *)

WhitespaceAt(s) == {i \in 1..Len(s) : s[i] \in Whitespace}

RECURSIVE Segments(_, _, _)
\* the pieces of s from index from on, cut at the positions of cutSet
Segments(s, from, cutSet) ==
    IF cutSet = {} THEN <<SubSeq(s, from, Len(s))>>
    ELSE LET c == CHOOSE x \in cutSet : \A y \in cutSet : x <= y
         IN <<SubSeq(s, from, c - 1)>> \o Segments(s, c + 1, cutSet \ {c})

Documents == Segments(text, 1, cuts)

WcInit ==
    /\ FactIdle
    /\ PiIdle
    /\ DecoIdle
    /\ text \in Texts
    /\ cuts \in {c \in SUBSET WhitespaceAt(text) : Cardinality(c) < MaxDocs}
    /\ wcPc = "rough"
    /\ counts_per_word = EmptyDict
    /\ word_instances = <<>>
    /\ collated_word_instances = <<>>
    /\ word_counts = EmptyDict
    /\ mapped = {}
    /\ emitted = <<>>
    /\ job_results = EmptyDict

\* the cell "rough solution to get the idea"
RoughSolution ==
    /\ wcPc = "rough"
    /\ counts_per_word' = CountsPerWord(text)
    /\ wcPc' = "step1"
    /\ UNCHANGED <<text, cuts, word_instances, collated_word_instances,
                   word_counts, mapped, emitted, job_results, factVars, piVars, decoVars>>

Step1 ==
    /\ wcPc = "step1"
    /\ word_instances' = WordInstances(text)
    /\ wcPc' = "step2"
    /\ UNCHANGED <<text, cuts, counts_per_word, collated_word_instances,
                   word_counts, mapped, emitted, job_results, factVars, piVars, decoVars>>

Step2 ==
    /\ wcPc = "step2"
    /\ collated_word_instances' = Collate(word_instances)
    /\ wcPc' = "step3"
    /\ UNCHANGED <<text, cuts, counts_per_word, word_instances,
                   word_counts, mapped, emitted, job_results, factVars, piVars, decoVars>>

Step3 ==
    /\ wcPc = "step3"
    /\ word_counts' = WordCounts(collated_word_instances)
    /\ wcPc' = "map"
    /\ UNCHANGED <<text, cuts, counts_per_word, word_instances,
                   collated_word_instances, mapped, emitted, job_results,
                   factVars, piVars, decoVars>>

\* a plausible slip: a document's output replaces what has arrived before
CombineReplacing(sofar, out) == out

\* the output of one map task joins the outputs that arrived before it
Combine(sofar, out) == sofar \o out

\* phase 1 on one document, on whichever computer, in whichever order
MapDocument(d) ==
    /\ wcPc = "map"
    /\ d \in DOMAIN Documents
    /\ d \notin mapped
    /\ emitted' = Combine(emitted, mapfn(d, Documents[d]))
    /\ mapped' = mapped \cup {d}
    /\ UNCHANGED <<text, cuts, wcPc, counts_per_word, word_instances,
                   collated_word_instances, word_counts, job_results,
                   factVars, piVars, decoVars>>

\* phases 2 and 3 on the single computer: collation, then reducefn per word
ReducePhase ==
    /\ wcPc = "map"
    /\ mapped = DOMAIN Documents
    /\ job_results' = ReduceAll(Collate(emitted))
    /\ wcPc' = "done"
    /\ UNCHANGED <<text, cuts, counts_per_word, word_instances,
                   collated_word_instances, word_counts, mapped, emitted,
                   factVars, piVars, decoVars>>

WcNext ==
    \/ RoughSolution
    \/ Step1
    \/ Step2
    \/ Step3
    \/ \E d \in 1..MaxDocs : MapDocument(d)
    \/ ReducePhase

SpecWordCount == WcInit /\ [][WcNext]_vars

---------------------------------------------------------------------------
(* Claims about the word count.                                            *)

\* C5: the map/reduce form of the word count gives the same word -> count
\* mapping as the single loop counts_per_word: step 3's word_counts does, and
\* so does the job (mapfn, collation, reducefn) run on the whole text.
C5_MapReduceEqualsDirectCount ==
    /\ wcPc \in {"map", "done"} => word_counts = counts_per_word
    /\ (wcPc = "done" /\ cuts = {}) => job_results = counts_per_word

C5_Witness ==
    /\ wcPc = "done" /\ cuts = {}
    /\ \E w \in DOMAIN counts_per_word : counts_per_word[w] >= 2
    /\ Cardinality(DOMAIN counts_per_word) >= 2

\* the job on the whole text at once: one map task, collation, reduce
WholeTextCounts == ReduceAll(Collate(mapfn(1, text)))

\* C6: however the text is cut into documents and in whichever order the
\* documents' map outputs are combined, collating and summing the combined
\* outputs gives the word counts of mapping the whole text at once.
C6_DocumentsMappedIndependently ==
    wcPc = "done" => job_results = WholeTextCounts

C6_Witness ==
    /\ wcPc = "done"
    /\ Cardinality(cuts) >= 1
    /\ \A d \in DOMAIN Documents : split(Documents[d]) # <<>>
    /\ emitted # mapfn(1, text)
    /\ \E w \in DOMAIN job_results : job_results[w] >= 2

\* the words of the input, and how often a word occurs among them
InputWords == split(text)

Occurs(w) == Cardinality({i \in DOMAIN InputWords : InputWords[i] = w})

Collated == wcPc \in {"step3", "map", "done"}

\* C13: after the collation step every distinct word of the input is the key
\* of exactly one entry of collated_word_instances and there is no other
\* key, the entries are in ascending key order, and the value list of a word
\* that occurs k times is a list of exactly k ones.
C13_CollationInvariant ==
    Collated =>
        LET c == collated_word_instances
        IN /\ \A n \in DOMAIN InputWords :
                 Cardinality({i \in DOMAIN c : c[i][1] = InputWords[n]}) = 1
           /\ \A i \in DOMAIN c : Occurs(c[i][1]) >= 1
           /\ \A i, j \in DOMAIN c : i < j => StrLess(c[i][1], c[j][1])
           /\ \A i \in DOMAIN c :
                 c[i][2] = [j \in 1..Occurs(c[i][1]) |-> 1]

\* collated: two distinct words that were not in order, one of them twice
C13_Witness ==
    /\ Collated
    /\ Len(collated_word_instances) >= 2
    /\ \E i \in DOMAIN collated_word_instances :
          Len(collated_word_instances[i][2]) >= 2
    /\ \E n \in DOMAIN InputWords :
          n < Len(InputWords) /\ StrLess(InputWords[n + 1], InputWords[n])

---------------------------------------------------------------------------
(* The pi job.  Python's integers do not overflow: a sum is kept as        *)
(* <<hi, lo>>, standing for hi * Base + lo with 0 <= lo < Base.            *)

Base == 10^9

PyZero == <<0, 0>>

\* acc + n for a sum acc and an int 0 <= n < Base
PyAdd(acc, n) ==
    LET lo == acc[2] + n
    IN <<acc[1] + lo \div Base, lo % Base>>

\* bounds of the small job
NumTasks == 3

MaxDarts == 2

Workers == {"w1", "w2"}

\* the demo: 1000 map tasks, each throwing 10,000,000 darts
DemoTasks == 1000

DemoDarts == 10000000

NoResults == <<>>

\* pi mapfn(key, value): the ('totals', (inside, value)) it can yield, inside
\* being the number of the value random points that fell within one radius
pi_mapfn(key, value) == {<<"totals", <<i, value>>>> : i \in 0..value}

\* a plausible slip: the total is fed from the wrong field of v
pi_reducefn_bodySwapped(acc, v) == <<PyAdd(acc[1], v[1]), PyAdd(acc[2], v[1])>>

\* a plausible slip: the tasks are counted, not their darts
pi_reducefn_bodyCount(acc, v) == <<PyAdd(acc[1], v[1]), PyAdd(acc[2], 1)>>

\* the body of pi reducefn's loop: inside += v[0]; total += v[1]
pi_reducefn_body(acc, v) == <<PyAdd(acc[1], v[1]), PyAdd(acc[2], v[2])>>

\* the factorial, word count and decorator cells are not being run
OthersIdle == FactIdle /\ WcIdle /\ DecoIdle

PiInit ==
    /\ OthersIdle
    /\ data \in [1..NumTasks -> {1, MaxDarts}]
    /\ workerState = [w \in Workers |-> "away"]
    /\ workerTask = [w \in Workers |-> 0]
    /\ taskState = [k \in DOMAIN data |-> "pending"]
    /\ accepted = [k \in DOMAIN data |-> NoResults]
    /\ map_results = <<>>
    /\ rIdx = 0
    /\ rAcc = <<PyZero, PyZero>>
    /\ results = NoResults
    /\ printed = FALSE

\* a worker connects and reports that it is ready for a task
WorkerJoins(w) ==
    /\ workerState[w] = "away"
    /\ workerState' = [workerState EXCEPT ![w] = "ready"]
    /\ UNCHANGED <<data, workerTask, taskState, accepted, map_results,
                   rIdx, rAcc, results, printed, factVars, wcVars, decoVars>>

\* a plausible slip: the task of a worker that went away counts as completed
RequeueAsDone(ts, k) == [ts EXCEPT ![k] = "done"]

\* the task of a worker that went away is to be handed out again
Requeue(ts, k) == [ts EXCEPT ![k] = "pending"]

\* a worker goes away; what it was working on is lost with it
WorkerLeaves(w) ==
    /\ workerState[w] # "away"
    /\ workerState' = [workerState EXCEPT ![w] = "away"]
    /\ workerTask' = [workerTask EXCEPT ![w] = 0]
    /\ taskState' = IF workerState[w] = "map"
                    THEN Requeue(taskState, workerTask[w])
                    ELSE taskState
    /\ rIdx' = IF workerState[w] = "reduce" THEN 0 ELSE rIdx
    /\ rAcc' = IF workerState[w] = "reduce" THEN <<PyZero, PyZero>> ELSE rAcc
    /\ UNCHANGED <<data, accepted, map_results, results, printed,
                   factVars, wcVars, decoVars>>

Pending == {k \in DOMAIN data : taskState[k] = "pending"}

\* the server sends the next task to a worker that is ready
AssignMap(w) ==
    /\ workerState[w] = "ready"
    /\ Pending # {}
    /\ LET k == CHOOSE x \in Pending : \A y \in Pending : x <= y
       IN /\ workerTask' = [workerTask EXCEPT ![w] = k]
          /\ taskState' = [taskState EXCEPT ![k] = "working"]
    /\ workerState' = [workerState EXCEPT ![w] = "map"]
    /\ UNCHANGED <<data, accepted, map_results, rIdx, rAcc, results,
                   printed, factVars, wcVars, decoVars>>

\* the worker has run mapfn on its task; the server takes the result in and
\* the worker is ready for the next task
MapDone(w) ==
    /\ workerState[w] = "map"
    /\ LET k == workerTask[w]
       IN \E kv \in pi_mapfn(k, data[k]) :
            /\ map_results' = Append(map_results, kv[2])
            /\ accepted' = [accepted EXCEPT ![k] = kv[2]]
            /\ taskState' = [taskState EXCEPT ![k] = "done"]
    /\ workerState' = [workerState EXCEPT ![w] = "ready"]
    /\ workerTask' = [workerTask EXCEPT ![w] = 0]
    /\ UNCHANGED <<data, rIdx, rAcc, results, printed, factVars, wcVars, decoVars>>

\* a plausible slip: the reduce job goes out once every task is handed out
AllTasksHandedOut == {k \in DOMAIN data : taskState[k] = "pending"} = {}

\* all the tasks have been completed
AllTasksCompleted == {k \in DOMAIN data : taskState[k] # "done"} = {}

Reducing == \E w \in Workers : workerState[w] = "reduce"

\* the server sends out the single reduce job to one of the workers
SendReduce(w) ==
    /\ workerState[w] = "ready"
    /\ AllTasksCompleted
    /\ ~Reducing
    /\ results = NoResults
    /\ workerState' = [workerState EXCEPT ![w] = "reduce"]
    /\ rIdx' = 0
    /\ rAcc' = <<PyZero, PyZero>>
    /\ UNCHANGED <<data, workerTask, taskState, accepted, map_results,
                   results, printed, factVars, wcVars, decoVars>>

\* one turn of "for v in value" in reducefn('totals', map_results)
ReduceStep ==
    /\ Reducing
    /\ rIdx < Len(map_results)
    /\ rAcc' = pi_reducefn_body(rAcc, map_results[rIdx + 1])
    /\ rIdx' = rIdx + 1
    /\ UNCHANGED <<data, workerState, workerTask, taskState, accepted,
                   map_results, results, printed, factVars, wcVars, decoVars>>

\* "return inside, total": the server gets the result back
ReduceReturn ==
    /\ Reducing
    /\ rIdx = Len(map_results)
    /\ results' = rAcc
    /\ workerState' = [w \in Workers |->
                         IF workerState[w] = "reduce" THEN "ready"
                         ELSE workerState[w]]
    /\ UNCHANGED <<data, workerTask, taskState, accepted, map_results,
                   rIdx, rAcc, printed, factVars, wcVars, decoVars>>

\* the server prints the final answer
PrintResults ==
    /\ results # NoResults
    /\ ~printed
    /\ printed' = TRUE
    /\ UNCHANGED <<data, workerState, workerTask, taskState, accepted,
                   map_results, rIdx, rAcc, results, factVars, wcVars, decoVars>>

PiNext ==
    \/ \E w \in Workers : WorkerJoins(w)
    \/ \E w \in Workers : WorkerLeaves(w)
    \/ \E w \in Workers : AssignMap(w)
    \/ \E w \in Workers : MapDone(w)
    \/ \E w \in Workers : SendReduce(w)
    \/ ReduceStep
    \/ ReduceReturn
    \/ PrintResults

SpecPi == PiInit /\ [][PiNext]_vars

\* the outcomes of the demo's map tasks that are followed: no dart inside,
\* the share of the notebook's run, every dart inside
DemoInside == {0, 7854624, DemoDarts}

\* the demo job when its map tasks have all been completed
DemoInit ==
    /\ OthersIdle
    /\ data = [k \in 1..DemoTasks |-> DemoDarts]
    /\ workerState = [w \in Workers |-> "ready"]
    /\ workerTask = [w \in Workers |-> 0]
    /\ taskState = [k \in DOMAIN data |-> "done"]
    /\ \E a \in DemoInside :
          accepted = [k \in DOMAIN data |-> <<a, data[k]>>]
    /\ map_results = [i \in 1..DemoTasks |-> accepted[i]]
    /\ rIdx = 0
    /\ rAcc = <<PyZero, PyZero>>
    /\ results = NoResults
    /\ printed = FALSE

DemoNext ==
    \/ \E w \in Workers : WorkerJoins(w)
    \/ \E w \in Workers : WorkerLeaves(w)
    \/ \E w \in Workers : SendReduce(w)
    \/ ReduceStep
    \/ ReduceReturn
    \/ PrintResults

SpecDemo == DemoInit /\ [][DemoNext]_vars

---------------------------------------------------------------------------
(* Claims about the pi job.                                                *)

\* a + b for two sums
SumPlus(a, b) ==
    LET lo == a[2] + b[2]
    IN <<a[1] + b[1] + lo \div Base, lo % Base>>

RECURSIVE FieldSum(_, _, _, _)
\* the sum of field f of value[i] for i in lo..hi, taken half by half
FieldSum(value, f, lo, hi) ==
    IF lo > hi THEN PyZero
    ELSE IF lo = hi THEN <<0, value[lo][f]>>
    ELSE LET mid == (lo + hi) \div 2
         IN SumPlus(FieldSum(value, f, lo, mid),
                    FieldSum(value, f, mid + 1, hi))

\* C7: reducefn returns (sum of v[0], sum of v[1]) over every v of value; in
\* its loop the two sums are those of the v consumed so far.
C7_ReduceReturnsSums ==
    /\ Reducing =>
          rAcc = <<FieldSum(map_results, 1, 1, rIdx),
                   FieldSum(map_results, 2, 1, rIdx)>>
    /\ results # NoResults =>
          results = <<FieldSum(map_results, 1, 1, Len(map_results)),
                      FieldSum(map_results, 2, 1, Len(map_results))>>

C7_Witness ==
    /\ results # NoResults
    /\ Len(map_results) >= 2
    /\ \E i, j \in DOMAIN map_results :
          /\ map_results[i][1] # map_results[j][1]
          /\ map_results[i][1] # map_results[i][2]

TaskValues == [k \in DOMAIN data |-> <<data[k]>>]

---------------------------------------------------------------------------
(* The decorators notebook.  A function object is a record: the plain      *)
(* functions three, print_three and show_my_args, and the inner functions  *)
(* print_hi_first returns, each closing over the function it was given     *)
(* (func, an index into functions).  A call runs frame by frame; every     *)
(* print, call, return and TypeError is recorded in events with the depth  *)
(* of the frame that did it, the notebook cell being depth 0.              *)

\* how many inner functions print_hi_first creates in one run
MaxWraps == 3

\* a cell calls a function with no argument or with one: f() or f(1)
ArgCounts == {0, 1}

\* whether a call of function object f with n positional arguments binds:
\* show_my_args needs its x, the others take no arguments
Accepts(f, n) == IF f.kind = "show_my_args" THEN n >= 1 ELSE n = 0

CallEv(d, f, n) ==
    [kind |-> "call", depth |-> d, fn |-> f, nargs |-> n, val |-> PyNone,
     line |-> ""]

PrintEv(d, s) ==
    [kind |-> "print", depth |-> d, fn |-> 0, nargs |-> 0, val |-> PyNone,
     line |-> s]

ReturnEv(d, v) ==
    [kind |-> "return", depth |-> d, fn |-> 0, nargs |-> 0, val |-> v,
     line |-> ""]

RaiseEv(d) ==
    [kind |-> "TypeError", depth |-> d, fn |-> 0, nargs |-> 0, val |-> PyNone,
     line |-> ""]

Depth == Len(frames)

Top == frames[Len(frames)]

TopFn == functions[Top.fn]

SetPc(p) == [frames EXCEPT ![Len(frames)].pc = p]

\* the frame on top is at position p of a function of kind k
At(k, p) == frames /= <<>> /\ TopFn.kind = k /\ Top.pc = p

\* the frame on top prints s and moves to position p
PrintLine(s, p) ==
    /\ stdout' = Append(stdout, s)
    /\ events' = Append(events, PrintEv(Depth, s))
    /\ frames' = SetPc(p)
    /\ UNCHANGED <<functions, returned, status, factVars, wcVars, piVars>>

\* the frame on top returns v to its caller
Return(v) ==
    /\ frames' = SubSeq(frames, 1, Len(frames) - 1)
    /\ events' = Append(events, ReturnEv(Depth, v))
    /\ returned' = v
    /\ status' = IF Len(frames) = 1 THEN "returned" ELSE status
    /\ UNCHANGED <<functions, stdout, factVars, wcVars, piVars>>

\* print_hi_first(func): a new inner function that closes over func;
\* also what "@print_hi_first" above a def does with the function defined
print_hi_first(func) ==
    /\ frames = <<>>
    /\ Len(functions) < Len(PlainFunctions) + MaxWraps
    /\ functions' = Append(functions, [kind |-> "inner", func |-> func])
    /\ UNCHANGED <<frames, stdout, events, returned, status,
                   factVars, wcVars, piVars>>

\* a cell calls function object f with n arguments
CallFunction(f, n) ==
    /\ frames = <<>>
    /\ stdout' = <<>>
    /\ returned' = PyNone
    /\ IF Accepts(functions[f], n)
       THEN /\ frames' = <<[fn |-> f, pc |-> "start"]>>
            /\ events' = <<CallEv(0, f, n)>>
            /\ status' = "running"
       ELSE /\ frames' = <<>>
            /\ events' = <<CallEv(0, f, n), RaiseEv(0)>>
            /\ status' = "TypeError"
    /\ UNCHANGED <<functions, factVars, wcVars, piVars>>

\* a slip: inner calls func() and drops what it returns
InnerResultDropped(v) == PyNone

\* inner: what "return func()" returns, given the value func() returned
InnerResult(v) == v

\* inner: print('hi')
InnerPrintHi ==
    /\ At("inner", "start")
    /\ PrintLine("hi", "call")

\* inner: func(), a call with no arguments that binds
InnerCallFunc ==
    /\ At("inner", "call")
    /\ Accepts(functions[TopFn.func], 0)
    /\ events' = Append(events, CallEv(Depth, TopFn.func, 0))
    /\ frames' = Append(SetPc("wait"), [fn |-> TopFn.func, pc |-> "start"])
    /\ UNCHANGED <<functions, stdout, returned, status,
                   factVars, wcVars, piVars>>

\* inner: func() where func needs an argument: TypeError, which no frame
\* catches
InnerCallRaises ==
    /\ At("inner", "call")
    /\ ~Accepts(functions[TopFn.func], 0)
    /\ events' = events \o <<CallEv(Depth, TopFn.func, 0), RaiseEv(Depth)>>
    /\ frames' = <<>>
    /\ status' = "TypeError"
    /\ UNCHANGED <<functions, stdout, returned, factVars, wcVars, piVars>>

\* inner: return, once func() has returned
InnerReturn ==
    /\ At("inner", "wait")
    /\ Return(InnerResult(returned))

\* three: return 3
ThreeReturn ==
    /\ At("three", "start")
    /\ Return(PyInt(3))

\* print_three: print('three')
PrintThreePrint ==
    /\ At("print_three", "start")
    /\ PrintLine("three", "end")

\* print_three: falls off its end, returning None
PrintThreeReturn ==
    /\ At("print_three", "end")
    /\ Return(PyNone)

\* show_my_args(1): print(args)
ShowMyArgsPrintArgs ==
    /\ At("show_my_args", "start")
    /\ PrintLine("()", "kwargs")

\* show_my_args(1): print(kwargs)
ShowMyArgsPrintKwargs ==
    /\ At("show_my_args", "kwargs")
    /\ PrintLine("{}", "end")

\* show_my_args: falls off its end, returning None
ShowMyArgsReturn ==
    /\ At("show_my_args", "end")
    /\ Return(PyNone)

DecoInit ==
    /\ FactIdle
    /\ WcIdle
    /\ PiIdle
    /\ DecoIdle

DecoNext ==
    \/ \E func \in DOMAIN functions : print_hi_first(func)
    \/ \E f \in DOMAIN functions, n \in ArgCounts : CallFunction(f, n)
    \/ InnerPrintHi
    \/ InnerCallFunc
    \/ InnerCallRaises
    \/ InnerReturn
    \/ ThreeReturn
    \/ PrintThreePrint
    \/ PrintThreeReturn
    \/ ShowMyArgsPrintArgs
    \/ ShowMyArgsPrintKwargs
    \/ ShowMyArgsReturn

SpecDecorators == DecoInit /\ [][DecoNext]_vars

\* what the frame at depth d did, in order
OwnEvents(d) == SelectSeq(events, LAMBDA e : e.depth = d)

\* the calls the frame at depth d made
OwnCalls(d) == SelectSeq(OwnEvents(d), LAMBDA e : e.kind = "call")

\* the positions in events at which an inner function is entered
InnerEntries ==
    {p \in DOMAIN events :
        /\ events[p].kind = "call"
        /\ events[p].nargs = 0
        /\ functions[events[p].fn].kind = "inner"}

\* C11: calling a function wrapped by print_hi_first first prints 'hi' and
\* only then calls the wrapped function, exactly once and with no
\* arguments, and returns the wrapped function's return value.  For every
\* entry into an inner function since the outermost call: the next thing
\* that happens is its print of 'hi', the one after is its call of func
\* with no arguments, it makes no other call, and when it returns it does
\* so right after func returned and with func's value.
C11_HiThenWrappedOnce ==
    \A p \in InnerEntries :
        LET d == events[p].depth + 1
            func == functions[events[p].fn].func
        IN /\ Len(events) > p => events[p + 1] = PrintEv(d, "hi")
           /\ Len(events) > p + 1 => events[p + 2] = CallEv(d, func, 0)
           /\ Len(OwnCalls(d)) <= 1
           /\ (p = 1 /\ stdout /= <<>>) => stdout[1] = "hi"
           /\ \A q \in DOMAIN events :
                 (events[q].kind = "return" /\ events[q].depth = d) =>
                     /\ q > p + 2
                     /\ events[q - 1].kind = "return"
                     /\ events[q - 1].depth = d + 1
                     /\ events[q].val = events[q - 1].val
           /\ status = "returned" =>
                 /\ Len(OwnCalls(d)) = 1
                 /\ \E q \in DOMAIN events :
                       events[q].kind = "return" /\ events[q].depth = d
           /\ (status = "returned" /\ p = 1) =>
                 \E q \in DOMAIN events :
                     /\ events[q].kind = "return" /\ events[q].depth = 2
                     /\ returned = events[q].val

\* a function that wraps a wrapped three was called and has returned 3,
\* each of the two inner functions having printed its 'hi'
C11_Witness ==
    /\ status = "returned"
    /\ events /= <<>>
    /\ functions[events[1].fn].kind = "inner"
    /\ functions[functions[events[1].fn].func].kind = "inner"
    /\ stdout = <<"hi", "hi">>
    /\ returned = PyInt(3)

============================================================================
